---------------------------- MODULE Spec2Model ----------------------------
(***************************************************************************)
(* Expenso: the transaction store client (src/lib/transactions.ts), the    *)
(* aggregation functions of the Home and Insights screens, the Add form,   *)
(* the loads of the three list screens, and the deletes and the sort of    *)
(* the Transactions screen.                                                *)
(*                                                                         *)
(* Numbers.  Amounts are JavaScript numbers (binary floating point).  A    *)
(* value is modelled as an integer count of the smallest amount unit, and  *)
(* every addition or subtraction rounds its exact result to MantissaBits   *)
(* significant bits, ties to even, as IEEE-754 does with 53 bits.          *)
(* A quotient is kept as the exact fraction <<numerator, denominator>>.    *)
(*                                                                         *)
(* Time.  A timestamp (Date.getTime()) is an integer number of ticks;      *)
(* a local calendar day is TicksPerDay ticks long and starts at a multiple *)
(* of TicksPerDay (no daylight-saving change inside the modelled span).    *)
(***************************************************************************)
EXTENDS Integers, Sequences, FiniteSets, TLC

VARIABLES
    now,            \* the value a call of new Date() returns
    transactions,   \* useState<Transaction[]> of the screen
    home,           \* what the last render of HomeScreen computed
    insights,       \* what the last render of InsightsScreen computed
    form,           \* AddScreen state: type, amount, category, mood, loading,
                    \* and the title of the last Alert it raised
    pending,        \* the TransactionInput of the addTransaction call in flight
    store,          \* rows of table transactions, in insertion order
    roastingEnabled,\* useState(true) of the Insights screen
    refreshing,     \* useState(false) of the screen
    calls,          \* the calls of the screen that await their answer
    outcome,        \* how the call of a function of transactions.ts that ended in
                    \* the last step ended; NotSettled when none did
    idsIssued,      \* number of ids gen_random_uuid() has handed out
    screen,         \* the screen whose loads and deletes are followed:
                    \* "home", "insights" or "transactions"
    loading,        \* useState(true) of the Home screen
    lastFetch,      \* while loads are in flight: the answer to the most
                    \* recently issued one
    sortBy,         \* useState<SortBy>('date') of the Transactions screen
    sortOrder,      \* useState<SortOrder>('desc') of the Transactions screen
    sortedTransactions  \* what the last render of TransactionsScreen computed

vars == <<now, transactions, home, insights, form, pending, store,
          roastingEnabled, refreshing, calls, outcome, idsIssued,
          screen, loading, lastFetch, sortBy, sortOrder, sortedTransactions>>

----------------------------------------------------------------------------
(* Bounds of the model *)

MantissaBits == 3       \* significant bits of a number
TicksPerDay == 2        \* clock resolution: ticks in one calendar day
MaxTx == 3              \* collection size for the amount / category inputs
MaxRun == 32            \* days back the longest run of expense days reaches
ShortSpan == 3          \* most recent days on which expenses are placed freely
MaxStore == 1           \* rows the table holds
MaxIds == 2             \* rows inserted while the Transactions screen is used

NULL == "NULL"                      \* a string field that is null / undefined
None == [present |-> FALSE]         \* a value that is null / undefined
Some(v) == [present |-> TRUE, value |-> v]
NotRendered == [rendered |-> FALSE]
NotSettled == [settled |-> FALSE]   \* no call ended in the last step

----------------------------------------------------------------------------
(* JavaScript numbers *)

RECURSIVE Pow2(_)
Pow2(n) == IF n = 0 THEN 1 ELSE 2 * Pow2(n - 1)

MaxExact == Pow2(MantissaBits)

RECURSIVE Ulp(_)
Ulp(x) == IF x < MaxExact THEN 1 ELSE 2 * Ulp(x \div 2)

FRoundNat(x) ==
    LET s == Ulp(x)
        q == x \div s
        r == x % s
    IN  IF 2 * r > s \/ (2 * r = s /\ q % 2 = 1) THEN (q + 1) * s ELSE q * s

FRound(x) == IF x < 0 THEN 0 - FRoundNat(0 - x) ELSE FRoundNat(x)

FAdd(a, b) == FRound(a + b)
FSub(a, b) == FRound(a - b)
FDiv(a, b) == <<a, b>>

Max(a, b) == IF a >= b THEN a ELSE b

\* An amount of 1 is one cent: the code's number 1 (a dollar) is UnitsPerDollar.
UnitsPerDollar == 100

RECURSIVE Pow10(_)
Pow10(n) == IF n = 0 THEN 1 ELSE 10 * Pow10(n - 1)

\* x.toFixed(digits), digits <= 2: the decimal shown, as a whole number of
\* units of 10^-digits dollars; the nearest one, the larger of two nearest
toFixed(x, digits) ==
    LET unit == UnitsPerDollar \div Pow10(digits)
        n == (2 * (IF x < 0 THEN 0 - x ELSE x) + unit) \div (2 * unit)
    IN  IF x < 0 THEN 0 - n ELSE n

----------------------------------------------------------------------------
(* date-fns *)

startOfDay(t) == t - (t % TicksPerDay)
subDays(t, n) == t - n * TicksPerDay
isAfter(a, b) == a > b
differenceInDays(later, earlier) ==
    IF later >= earlier THEN (later - earlier) \div TicksPerDay
    ELSE 0 - ((earlier - later) \div TicksPerDay)

DayMs == TicksPerDay

----------------------------------------------------------------------------
(* src/lib/transactions.ts: the pure aggregations *)

IsExpense(t) == t.type = "expense"
IsIncome(t) == t.type = "income"

RECURSIVE SumAmounts(_, _)
SumAmounts(sum, s) ==
    IF s = <<>> THEN sum ELSE SumAmounts(FAdd(sum, Head(s).amount), Tail(s))

\* calculateBalance with the type filter of totalExpense left out
calculateBalance_NoExpenseFilter(txs) ==
    LET totalIncome == SumAmounts(0, SelectSeq(txs, IsIncome))
        totalExpense == SumAmounts(0, txs)
    IN  [totalIncome |-> totalIncome,
         totalExpense |-> totalExpense,
         balance |-> FSub(totalIncome, totalExpense)]

calculateBalance(txs) ==
    LET totalIncome == SumAmounts(0, SelectSeq(txs, IsIncome))
        totalExpense == SumAmounts(0, SelectSeq(txs, IsExpense))
    IN  [totalIncome |-> totalIncome,
         totalExpense |-> totalExpense,
         balance |-> FSub(totalIncome, totalExpense)]

categoryColors(category) ==
    CASE category = "Food" -> "#FF8B94"
      [] category = "Travel" -> "#6FA8FF"
      [] category = "Shopping" -> "#FFB86C"
      [] category = "Bills" -> "#A8C5FF"
      [] category = "Fun" -> "#C9A0DC"
      [] category = "Other" -> "#9CA3AF"
      [] OTHER -> "#9CA3AF"

\* An object used as a map: a sequence of <<key, value>> in insertion order,
\* which is the order Object.entries returns.
HasKey(map, k) == \E i \in 1..Len(map) : map[i][1] = k
Lookup(map, k) == map[CHOOSE i \in 1..Len(map) : map[i][1] = k][2]
Put(map, k, v) ==
    IF HasKey(map, k)
    THEN [i \in 1..Len(map) |-> IF map[i][1] = k THEN <<k, v>> ELSE map[i]]
    ELSE Append(map, <<k, v>>)

\* the forEach body assigning the amount instead of adding it
RECURSIVE CategoryTotals_Overwrite(_, _)
CategoryTotals_Overwrite(map, s) ==
    IF s = <<>> THEN map
    ELSE CategoryTotals_Overwrite(Put(map, Head(s).category, Head(s).amount), Tail(s))

RECURSIVE CategoryTotals(_, _)
CategoryTotals(map, s) ==
    IF s = <<>> THEN map
    ELSE LET t == Head(s)
             old == IF HasKey(map, t.category) THEN Lookup(map, t.category) ELSE 0
         IN  CategoryTotals(Put(map, t.category, FAdd(old, t.amount)), Tail(s))

\* the comparator with its operands swapped: a.amount - b.amount
RECURSIVE InsertByAmount_Ascending(_, _)
InsertByAmount_Ascending(sorted, x) ==
    IF sorted = <<>> THEN <<x>>
    ELSE IF FSub(x.amount, Head(sorted).amount) < 0
         THEN <<x>> \o sorted
         ELSE <<Head(sorted)>> \o InsertByAmount_Ascending(Tail(sorted), x)

\* entries.sort((a, b) => b.amount - a.amount): a stable sort; x goes before
\* y when the comparator's result for (x, y) is negative.
RECURSIVE InsertByAmount(_, _)
InsertByAmount(sorted, x) ==
    IF sorted = <<>> THEN <<x>>
    ELSE IF FSub(Head(sorted).amount, x.amount) < 0
         THEN <<x>> \o sorted
         ELSE <<Head(sorted)>> \o InsertByAmount(Tail(sorted), x)

RECURSIVE SortByAmountDesc(_, _)
SortByAmountDesc(s, acc) ==
    IF s = <<>> THEN acc
    ELSE SortByAmountDesc(Tail(s), InsertByAmount(acc, Head(s)))

\* Array.prototype.sort reorders the array it is called on and returns it;
\* filter, map and Object.entries return new arrays.  The arrays a call works
\* with are the fields of a record; its value is the arrays when the call
\* returns, transactions being the array the call was given.

\* getCategorySpending sorting the array it was given before it filters it
getCategorySpendingArrays_SortsArgument(txs) ==
    LET sortedTxs == SortByAmountDesc(txs, <<>>)
        expenses == SelectSeq(sortedTxs, IsExpense)
        categoryMap == CategoryTotals(<<>>, expenses)
        entries == [i \in 1..Len(categoryMap) |->
                      [category |-> categoryMap[i][1],
                       amount |-> categoryMap[i][2],
                       color |-> categoryColors(categoryMap[i][1])]]
        arrays == [transactions |-> sortedTxs, expenses |-> expenses, entries |-> entries]
    IN  [arrays EXCEPT !.entries = SortByAmountDesc(@, <<>>)]

getCategorySpendingArrays(txs) ==
    LET expenses == SelectSeq(txs, IsExpense)
        categoryMap == CategoryTotals(<<>>, expenses)
        entries == [i \in 1..Len(categoryMap) |->
                      [category |-> categoryMap[i][1],
                       amount |-> categoryMap[i][2],
                       color |-> categoryColors(categoryMap[i][1])]]
        arrays == [transactions |-> txs, expenses |-> expenses, entries |-> entries]
    IN  [arrays EXCEPT !.entries = SortByAmountDesc(@, <<>>)]

getCategorySpending(txs) == getCategorySpendingArrays(txs).entries

----------------------------------------------------------------------------
(* src/app/(tabs)/index.tsx: HomeScreen *)

ChartDays == 7

\* the series built newest day first: subDays(new Date(), i)
getDailySpending_NewestFirst(txs, t) ==
    LET last7Days == [i \in 1..ChartDays |-> startOfDay(subDays(t, i - 1))]
    IN  [i \in 1..ChartDays |->
           LET date == last7Days[i]
               InDay(x) == /\ x.type = "expense"
                           /\ isAfter(x.created_at, date)
                           /\ x.created_at < date + DayMs
           IN  SumAmounts(0, SelectSeq(txs, InDay))]

getDailySpending(txs, t) ==
    LET last7Days == [i \in 1..ChartDays |-> startOfDay(subDays(t, 6 - (i - 1)))]
    IN  [i \in 1..ChartDays |->
           LET date == last7Days[i]
               InDay(x) == /\ x.type = "expense"
                           /\ isAfter(x.created_at, date)
                           /\ x.created_at < date + DayMs
           IN  SumAmounts(0, SelectSeq(txs, InDay))]

\* getAIInsight adding up the transactions of both types
getAIInsight_CountsIncome(txs, t, categoryData) ==
    LET today == startOfDay(t)
        IsToday(x) == isAfter(x.created_at, today)
        todayTotal == SumAmounts(0, SelectSeq(txs, IsToday))
    IN  IF todayTotal = 0 THEN [message |-> "Great job!"]
        ELSE IF todayTotal > 100 * UnitsPerDollar
        THEN [message |-> "Whoa there!", spent |-> toFixed(todayTotal, 0)]
        ELSE [message |-> "You're spending most on",
              topCategory |-> IF categoryData # <<>> /\ categoryData[1].category # ""
                              THEN categoryData[1].category ELSE "nothing"]

\* A message is its fixed text and the values put into it.
getAIInsight(txs, t, categoryData) ==
    LET today == startOfDay(t)
        IsToday(x) == x.type = "expense" /\ isAfter(x.created_at, today)
        todayTotal == SumAmounts(0, SelectSeq(txs, IsToday))
    IN  IF todayTotal = 0 THEN [message |-> "Great job!"]
        ELSE IF todayTotal > 100 * UnitsPerDollar
        THEN [message |-> "Whoa there!", spent |-> toFixed(todayTotal, 0)]
        ELSE [message |-> "You're spending most on",
              topCategory |-> IF categoryData # <<>> /\ categoryData[1].category # ""
                              THEN categoryData[1].category ELSE "nothing"]

----------------------------------------------------------------------------
(* src/app/(tabs)/insights.tsx: InsightsScreen *)

WeekDays == 7
StreakLookback == 30

getWeeklySpending(txs, t) ==
    LET weekAgo == subDays(t, WeekDays)
        InWeek(x) == x.type = "expense" /\ isAfter(x.created_at, weekAgo)
    IN  SumAmounts(0, SelectSeq(txs, InWeek))

\* getDailyAverage taking the first expense of the list for the oldest
getDailyAverage_NewestExpense(txs, t) ==
    IF Len(txs) = 0 THEN FDiv(0, 1)
    ELSE LET expenses == SelectSeq(txs, IsExpense)
         IN  IF Len(expenses) = 0 THEN FDiv(0, 1)
             ELSE LET total == SumAmounts(0, expenses)
                      oldestTransaction == expenses[1].created_at
                      days == Max(differenceInDays(t, oldestTransaction), 1)
                  IN  FDiv(total, days)

getDailyAverage(txs, t) ==
    IF Len(txs) = 0 THEN FDiv(0, 1)
    ELSE LET expenses == SelectSeq(txs, IsExpense)
         IN  IF Len(expenses) = 0 THEN FDiv(0, 1)
             ELSE LET total == SumAmounts(0, expenses)
                      oldestTransaction == expenses[Len(expenses)].created_at
                      days == Max(differenceInDays(t, oldestTransaction), 1)
                  IN  FDiv(total, days)

\* a sort that puts an element before the elements it ties with
RECURSIVE InsertByTotal_TiesFirst(_, _)
InsertByTotal_TiesFirst(sorted, x) ==
    IF sorted = <<>> THEN <<x>>
    ELSE IF FSub(Head(sorted)[2], x[2]) <= 0
         THEN <<x>> \o sorted
         ELSE <<Head(sorted)>> \o InsertByTotal_TiesFirst(Tail(sorted), x)

\* Object.entries(categoryTotals).sort((a, b) => b[1] - a[1])
RECURSIVE InsertByTotal(_, _)
InsertByTotal(sorted, x) ==
    IF sorted = <<>> THEN <<x>>
    ELSE IF FSub(Head(sorted)[2], x[2]) < 0
         THEN <<x>> \o sorted
         ELSE <<Head(sorted)>> \o InsertByTotal(Tail(sorted), x)

RECURSIVE SortByTotalDesc(_, _)
SortByTotalDesc(s, acc) ==
    IF s = <<>> THEN acc
    ELSE SortByTotalDesc(Tail(s), InsertByTotal(acc, Head(s)))

getMostExpensiveCategoryArrays(txs) ==
    LET expenses == SelectSeq(txs, IsExpense)
        categoryTotals == CategoryTotals(<<>>, expenses)
        arrays == [transactions |-> txs, expenses |-> expenses, entries |-> categoryTotals]
    IN  [arrays EXCEPT !.entries = SortByTotalDesc(@, <<>>)]

\* the top category taken among the incomes
getMostExpensiveCategory_OfIncomes(txs) ==
    LET sorted == SortByTotalDesc(CategoryTotals(<<>>, SelectSeq(txs, IsIncome)), <<>>)
    IN  IF sorted = <<>> THEN None ELSE Some(sorted[1])

getMostExpensiveCategory(txs) ==
    LET sorted == getMostExpensiveCategoryArrays(txs).entries
    IN  IF sorted = <<>> THEN None ELSE Some(sorted[1])

Truthy(str) == str # NULL /\ str # ""

\* the forEach body leaving out moodTotals[t.mood].count += 1 after the first
RECURSIVE MoodTotals_CountsOnce(_, _)
MoodTotals_CountsOnce(map, s) ==
    IF s = <<>> THEN map
    ELSE LET t == Head(s)
             old == IF HasKey(map, t.mood) THEN Lookup(map, t.mood)
                    ELSE [total |-> 0, count |-> 0]
             new == [total |-> FAdd(old.total, t.amount), count |-> 1]
         IN  MoodTotals_CountsOnce(IF Truthy(t.mood) THEN Put(map, t.mood, new) ELSE map,
                                   Tail(s))

RECURSIVE MoodTotals(_, _)
MoodTotals(map, s) ==
    IF s = <<>> THEN map
    ELSE LET t == Head(s)
             old == IF HasKey(map, t.mood) THEN Lookup(map, t.mood)
                    ELSE [total |-> 0, count |-> 0]
             new == [total |-> FAdd(old.total, t.amount), count |-> old.count + 1]
         IN  MoodTotals(IF Truthy(t.mood) THEN Put(map, t.mood, new) ELSE map, Tail(s))

\* moodAverages.sort((a, b) => b.average - a.average); averages are fractions
\* with a positive denominator.
RECURSIVE InsertByAverage(_, _)
InsertByAverage(sorted, x) ==
    IF sorted = <<>> THEN <<x>>
    ELSE IF Head(sorted).average[1] * x.average[2] < x.average[1] * Head(sorted).average[2]
         THEN <<x>> \o sorted
         ELSE <<Head(sorted)>> \o InsertByAverage(Tail(sorted), x)

RECURSIVE SortByAverageDesc(_, _)
SortByAverageDesc(s, acc) ==
    IF s = <<>> THEN acc
    ELSE SortByAverageDesc(Tail(s), InsertByAverage(acc, Head(s)))

\* the arrays of getMoodSpendingCorrelation when it gets past its early return
getMoodSpendingCorrelationArrays(txs) ==
    LET HasMood(x) == x.type = "expense" /\ Truthy(x.mood)
        moodExpenses == SelectSeq(txs, HasMood)
        moodTotals == MoodTotals(<<>>, moodExpenses)
        moodAverages == [i \in 1..Len(moodTotals) |->
            [mood |-> moodTotals[i][1],
             average |-> FDiv(moodTotals[i][2].total, moodTotals[i][2].count),
             count |-> moodTotals[i][2].count]]
        arrays == [transactions |-> txs, moodExpenses |-> moodExpenses,
                   moodAverages |-> moodAverages]
    IN  [arrays EXCEPT !.moodAverages = SortByAverageDesc(@, <<>>)]

\* getMoodSpendingCorrelation without its early return of null
getMoodSpendingCorrelation_NoEarlyReturn(txs) ==
    Some(getMoodSpendingCorrelationArrays(txs).moodAverages)

getMoodSpendingCorrelation(txs) ==
    LET arrays == getMoodSpendingCorrelationArrays(txs)
    IN  IF Len(arrays.moodExpenses) = 0 THEN None ELSE Some(arrays.moodAverages)

\* the loop going on to the previous day after a day without expense
RECURSIVE StreakLoop_SkipsGaps(_, _, _, _)
StreakLoop_SkipsGaps(expenses, i, streak, currentDate) ==
    IF ~(i < StreakLookback) THEN streak
    ELSE LET hasExpense == \E k \in 1..Len(expenses) :
                              startOfDay(expenses[k].created_at) = currentDate
         IN  StreakLoop_SkipsGaps(expenses, i + 1,
                                  IF hasExpense THEN streak + 1 ELSE streak,
                                  subDays(currentDate, 1))

\* the loop with the condition i <= 30
RECURSIVE StreakLoop_OneMore(_, _, _, _)
StreakLoop_OneMore(expenses, i, streak, currentDate) ==
    IF ~(i <= StreakLookback) THEN streak
    ELSE LET hasExpense == \E k \in 1..Len(expenses) :
                              startOfDay(expenses[k].created_at) = currentDate
         IN  IF hasExpense
             THEN StreakLoop_OneMore(expenses, i + 1, streak + 1, subDays(currentDate, 1))
             ELSE streak

\* the for loop of getSpendingStreak, entered with loop counter i
RECURSIVE StreakLoop(_, _, _, _)
StreakLoop(expenses, i, streak, currentDate) ==
    IF ~(i < StreakLookback) THEN streak
    ELSE LET hasExpense == \E k \in 1..Len(expenses) :
                              startOfDay(expenses[k].created_at) = currentDate
         IN  IF hasExpense
             THEN StreakLoop(expenses, i + 1, streak + 1, subDays(currentDate, 1))
             ELSE streak

getSpendingStreak(txs, t) ==
    LET expenses == SelectSeq(txs, IsExpense)
    IN  IF Len(expenses) = 0 THEN 0
        ELSE StreakLoop(expenses, 0, 0, startOfDay(t))

\* the phrase getWhyBrokeExplanation adds for Travel as well
WhyBrokeRoast_AlsoTravel(category) ==
    CASE category = "Food" -> "Maybe cook at home once in a while?"
      [] category = "Shopping" -> "Do you really need another thing?"
      [] category = "Fun" -> "Living your best life, but at what cost?"
      [] category = "Travel" -> "Living that wanderlust life!"
      [] OTHER -> ""

\* the if / else if chain on topCategory[0] of getWhyBrokeExplanation
WhyBrokeRoast(category) ==
    CASE category = "Food" -> "Maybe cook at home once in a while?"
      [] category = "Shopping" -> "Do you really need another thing?"
      [] category = "Fun" -> "Living your best life, but at what cost?"
      [] OTHER -> ""

\* getWhyBrokeExplanation with the test balance > 0
getWhyBrokeExplanation_StrictlyPositive(txs, t, roasting) ==
    LET balance == calculateBalance(txs).balance
        weeklySpending == getWeeklySpending(txs, t)
        topCategory == getMostExpensiveCategory(txs)
    IN  IF balance > 0 THEN [message |-> "Actually, you're doing fine! Keep it up!"]
        ELSE [message |-> "Alright, let's break this down...",
              topCategory |->
                 IF topCategory.present
                 THEN Some([name |-> topCategory.value[1],
                            total |-> toFixed(topCategory.value[2], 2),
                            roast |-> IF roasting THEN WhyBrokeRoast(topCategory.value[1])
                                      ELSE ""])
                 ELSE None,
              weeklySpending |-> toFixed(weeklySpending, 2),
              slowDown |-> IF roasting /\ weeklySpending > 500 * UnitsPerDollar
                           THEN "That's... a lot. Maybe slow down?" ELSE ""]

\* The explanation is its opening text and the values and phrases appended.
getWhyBrokeExplanation(txs, t, roasting) ==
    LET balance == calculateBalance(txs).balance
        weeklySpending == getWeeklySpending(txs, t)
        topCategory == getMostExpensiveCategory(txs)
    IN  IF balance >= 0 THEN [message |-> "Actually, you're doing fine! Keep it up!"]
        ELSE [message |-> "Alright, let's break this down...",
              topCategory |->
                 IF topCategory.present
                 THEN Some([name |-> topCategory.value[1],
                            total |-> toFixed(topCategory.value[2], 2),
                            roast |-> IF roasting THEN WhyBrokeRoast(topCategory.value[1])
                                      ELSE ""])
                 ELSE None,
              weeklySpending |-> toFixed(weeklySpending, 2),
              slowDown |-> IF roasting /\ weeklySpending > 500 * UnitsPerDollar
                           THEN "That's... a lot. Maybe slow down?" ELSE ""]

\* the card's phrases with the one of Food shown for Travel too
TopCategoryRoast_TravelAsFood(category) ==
    CASE category = "Food" -> "You could start a restaurant with all that food money!"
      [] category = "Shopping" -> "Your closet called... it's full!"
      [] category = "Travel" -> "You could start a restaurant with all that food money!"
      [] category = "Fun" -> "All fun and games until you check your balance!"
      [] category = "Bills" -> "Adulting is expensive, isn't it?"
      [] category = "Other" -> "What exactly is 'Other'?"
      [] OTHER -> ""

\* the six {topCategory[0] === ... && "..."} of the top-category card: a
\* false one shows nothing
TopCategoryRoast(category) ==
    CASE category = "Food" -> "You could start a restaurant with all that food money!"
      [] category = "Shopping" -> "Your closet called... it's full!"
      [] category = "Travel" -> "Living that wanderlust life!"
      [] category = "Fun" -> "All fun and games until you check your balance!"
      [] category = "Bills" -> "Adulting is expensive, isn't it?"
      [] category = "Other" -> "What exactly is 'Other'?"
      [] OTHER -> ""

\* the top-category card: absent without a top category; its phrase is a
\* Text element that exists only when roasting is enabled
TopCategoryCard(topCategory, roasting) ==
    IF ~topCategory.present THEN None
    ELSE Some([categoryName |-> topCategory.value[1],
               categoryAmount |-> toFixed(topCategory.value[2], 2),
               roast |-> IF roasting THEN Some(TopCategoryRoast(topCategory.value[1]))
                         ELSE None])

----------------------------------------------------------------------------
(* Renders: each screen recomputes its aggregations from its state, one    *)
(* call after the other, each on the array the calls before it left        *)

RenderHome ==
    /\ LET b == calculateBalance(transactions)
           arrays == getCategorySpendingArrays(transactions)
           categoryData == arrays.entries
           txs == arrays.transactions
       IN  /\ home' = [rendered |-> TRUE,
                       balance |-> b.balance,
                       totalIncome |-> b.totalIncome,
                       totalExpense |-> b.totalExpense,
                       categoryData |-> categoryData,
                       dailySpending |-> getDailySpending(txs, now),
                       aiInsight |-> getAIInsight(txs, now, categoryData),
                       at |-> now]
           /\ transactions' = txs
    /\ outcome' = NotSettled
    /\ UNCHANGED <<now, insights, form, pending, store, roastingEnabled,
                   refreshing, calls, idsIssued,
                   screen, loading, lastFetch, sortBy, sortOrder, sortedTransactions>>

RenderInsights ==
    /\ LET topCategory == getMostExpensiveCategory(transactions)
           txs1 == getMostExpensiveCategoryArrays(transactions).transactions
           moodCorrelation == getMoodSpendingCorrelation(txs1)
           txs2 == IF moodCorrelation.present
                   THEN getMoodSpendingCorrelationArrays(txs1).transactions ELSE txs1
           txs3 == getMostExpensiveCategoryArrays(txs2).transactions
       IN  /\ insights' = [rendered |-> TRUE,
                           weeklySpending |-> getWeeklySpending(transactions, now),
                           dailyAverage |-> getDailyAverage(transactions, now),
                           topCategory |-> topCategory,
                           moodCorrelation |-> moodCorrelation,
                           streak |-> getSpendingStreak(txs2, now),
                           whyBroke |-> getWhyBrokeExplanation(txs2, now, roastingEnabled),
                           topCategoryCard |-> TopCategoryCard(topCategory, roastingEnabled),
                           roasting |-> roastingEnabled,
                           at |-> now]
           /\ transactions' = txs3
    /\ outcome' = NotSettled
    /\ UNCHANGED <<now, home, form, pending, store, roastingEnabled,
                   refreshing, calls, idsIssued,
                   screen, loading, lastFetch, sortBy, sortOrder, sortedTransactions>>

\* the Friendly Roasting switch
setRoastingEnabled ==
    /\ roastingEnabled' = ~roastingEnabled
    /\ outcome' = NotSettled
    /\ UNCHANGED <<now, transactions, home, insights, form, pending,
                   store, refreshing, calls, idsIssued,
                   screen, loading, lastFetch, sortBy, sortOrder, sortedTransactions>>

----------------------------------------------------------------------------
(* src/unnamed/part_002: AddScreen, and the table it inserts into.         *)
(* The text of the amount field is a sequence of characters; a parsed      *)
(* amount is NaN or the decimal m / 10^d.  An Alert is a modal dialog:     *)
(* while one is shown the screen takes no other input.                     *)

EXPENSE_CATEGORIES == <<"Food", "Travel", "Shopping", "Bills", "Fun", "Other">>
INCOME_SOURCES == <<"Salary", "Freelance", "Investment", "Gift", "Other">>
\* the five mood glyphs, by name
MOODS == <<"smile", "neutral", "sad", "angry", "party">>

NaN == [nan |-> TRUE]
Num(m, d) == [nan |-> FALSE, m |-> m, d |-> d]
Digits == {"0", "5"}
DigitValue(c) == IF c = "5" THEN 5 ELSE 0

\* the longest prefix of s made of digits
RECURSIVE DigitPrefix(_)
DigitPrefix(s) ==
    IF s # <<>> /\ Head(s) \in Digits THEN <<Head(s)>> \o DigitPrefix(Tail(s)) ELSE <<>>

RECURSIVE DigitsValue(_, _)
DigitsValue(acc, s) ==
    IF s = <<>> THEN acc ELSE DigitsValue(10 * acc + DigitValue(Head(s)), Tail(s))

Drop(s, n) == SubSeq(s, n + 1, Len(s))

\* parseFloat: an optional sign, then the longest prefix that is a decimal
\* literal (digits, digits '.' digits?, '.' digits); NaN when there is none.
parseFloat(s) ==
    LET negative == s # <<>> /\ Head(s) = "-"
        body == IF negative THEN Tail(s) ELSE s
        int == DigitPrefix(body)
        rest == Drop(body, Len(int))
        frac == IF rest # <<>> /\ Head(rest) = "." THEN DigitPrefix(Tail(rest)) ELSE <<>>
        m == DigitsValue(0, int \o frac)
    IN  IF int = <<>> /\ frac = <<>> THEN NaN
        ELSE Num(IF negative THEN 0 - m ELSE m, Len(frac))

\* x <= 0 on numbers: every comparison with NaN is false
LeqZero(x) == ~x.nan /\ x.m <= 0

dismissAlert ==
    /\ form.alert # NULL
    /\ form' = [form EXCEPT !.alert = NULL]
    /\ outcome' = NotSettled
    /\ UNCHANGED <<now, transactions, home, insights, pending, store,
                   roastingEnabled, refreshing, calls, idsIssued,
                   screen, loading, lastFetch, sortBy, sortOrder, sortedTransactions>>

\* the type buttons without setCategory('')
setType_KeepsCategory(newType) ==
    /\ form.alert = NULL
    /\ newType \in {"expense", "income"}
    /\ form' = [form EXCEPT !.type = newType,
                            !.mood = IF newType = "income" THEN "" ELSE @]
    /\ outcome' = NotSettled
    /\ UNCHANGED <<now, transactions, home, insights, pending, store,
                   roastingEnabled, refreshing, calls, idsIssued,
                   screen, loading, lastFetch, sortBy, sortOrder, sortedTransactions>>

setType(newType) ==
    /\ form.alert = NULL
    /\ newType \in {"expense", "income"}
    /\ form' = [form EXCEPT !.type = newType,
                            !.category = "",
                            !.mood = IF newType = "income" THEN "" ELSE @]
    /\ outcome' = NotSettled
    /\ UNCHANGED <<now, transactions, home, insights, pending, store,
                   roastingEnabled, refreshing, calls, idsIssued,
                   screen, loading, lastFetch, sortBy, sortOrder, sortedTransactions>>

setAmount(text) ==
    /\ form.alert = NULL
    /\ form' = [form EXCEPT !.amount = text]
    /\ outcome' = NotSettled
    /\ UNCHANGED <<now, transactions, home, insights, pending, store,
                   roastingEnabled, refreshing, calls, idsIssued,
                   screen, loading, lastFetch, sortBy, sortOrder, sortedTransactions>>

setCategory(option) ==
    /\ form.alert = NULL
    /\ \E i \in 1..Len(IF form.type = "expense" THEN EXPENSE_CATEGORIES ELSE INCOME_SOURCES) :
          option = (IF form.type = "expense" THEN EXPENSE_CATEGORIES ELSE INCOME_SOURCES)[i]
    /\ form' = [form EXCEPT !.category = option]
    /\ outcome' = NotSettled
    /\ UNCHANGED <<now, transactions, home, insights, pending, store,
                   roastingEnabled, refreshing, calls, idsIssued,
                   screen, loading, lastFetch, sortBy, sortOrder, sortedTransactions>>

setMood(m) ==
    /\ form.alert = NULL
    /\ form.type = "expense"
    /\ \E i \in 1..Len(MOODS) : m = MOODS[i]
    /\ form' = [form EXCEPT !.mood = IF @ = m THEN "" ELSE m]
    /\ outcome' = NotSettled
    /\ UNCHANGED <<now, transactions, home, insights, pending, store,
                   roastingEnabled, refreshing, calls, idsIssued,
                   screen, loading, lastFetch, sortBy, sortOrder, sortedTransactions>>

\* handleSubmit up to its await: the validation and the addTransaction call
handleSubmit ==
    /\ form.alert = NULL
    /\ ~form.loading
    /\ Len(store) < MaxStore
    /\ IF form.amount = <<>> \/ LeqZero(parseFloat(form.amount))
       THEN /\ form' = [form EXCEPT !.alert = "Invalid Amount"]
            /\ UNCHANGED pending
       ELSE IF form.category = ""
       THEN /\ form' = [form EXCEPT !.alert = "Missing Category"]
            /\ UNCHANGED pending
       ELSE /\ form' = [form EXCEPT !.loading = TRUE]
            /\ pending' = Some(
                          [type |-> form.type,
                           amount |-> parseFloat(form.amount),
                           category |-> form.category,
                           source |-> IF form.type = "income" THEN form.category ELSE NULL,
                           mood |-> IF form.type = "expense" /\ form.mood # ""
                                    THEN form.mood ELSE NULL])
    /\ outcome' = NotSettled
    /\ UNCHANGED <<now, transactions, home, insights, store, roastingEnabled,
                   refreshing, calls, idsIssued,
                   screen, loading, lastFetch, sortBy, sortOrder, sortedTransactions>>

\* JSON.stringify of the request body: NaN is written as null
ToJson(x) == IF x.nan THEN None ELSE Some(x)

\* the table without CHECK (amount > 0)
RowAccepted_NoAmountCheck(row) ==
    /\ row.type # NULL /\ row.type \in {"expense", "income"}
    /\ row.amount.present
    /\ row.category # NULL

\* the constraints of CREATE TABLE transactions
RowAccepted(row) ==
    /\ row.type # NULL /\ row.type \in {"expense", "income"}
    /\ row.amount.present /\ row.amount.value.m > 0
    /\ row.category # NULL

\* id uuid PRIMARY KEY DEFAULT gen_random_uuid(): an id never handed out before
NextId == idsIssued + 1

\* the row the table builds for an insert: id and created_at by their defaults
NewRow(transaction) ==
    [id |-> NextId,
     type |-> transaction.type,
     amount |-> ToJson(transaction.amount),
     category |-> transaction.category,
     source |-> transaction.source,
     mood |-> transaction.mood,
     created_at |-> now]

\* The answer of the table to a request: { data, error }.  error is NULL or
\* the error's name; reachable says whether the request got through.
Reply(data, error) == [data |-> data, error |-> error]

InsertReply(transaction, reachable) ==
    IF ~reachable THEN Reply(None, "FetchError")
    ELSE IF ~RowAccepted(NewRow(transaction)) THEN Reply(None, "ConstraintViolation")
    ELSE Reply(Some([NewRow(transaction) EXCEPT !.amount = @.value]), NULL)

StoreAfterInsert(reply) ==
    IF reply.error = NULL THEN Append(store, reply.data.value) ELSE store

\* created_at timestamptz DEFAULT now(): no two rows get the same instant; the
\* clock is one tick further after each row
NowAfterInsert(reply) == IF reply.error = NULL THEN now + 1 ELSE now

\* .select('*').order('created_at', { ascending: false }); rows are inserted
\* at increasing created_at, so this is the reverse of the insertion order
RowsNewestFirst == [i \in 1..Len(store) |-> store[Len(store) + 1 - i]]

SelectReply(answer) ==
    CASE answer = "error" -> Reply(None, "FetchError")
      [] answer = "nodata" -> Reply(None, NULL)
      [] OTHER -> Reply(Some(RowsNewestFirst), NULL)

\* .delete().eq('id', id): no error when no row has the id
DeleteReply(reachable) ==
    IF ~reachable THEN Reply(None, "FetchError") ELSE Reply(None, NULL)

StoreAfterDelete(id, reply) ==
    IF reply.error = NULL THEN SelectSeq(store, LAMBDA row : row.id # id) ELSE store

----------------------------------------------------------------------------
(* src/lib/transactions.ts: the store functions, from the answer of their  *)
(* one request to what the caller gets                                     *)

Threw(error) == [threw |-> TRUE, error |-> error]
Returned(value) == [threw |-> FALSE, value |-> value]

\* getTransactions returning [] instead of throwing
getTransactionsResult_SwallowsError(reply) ==
    Returned(IF reply.data.present THEN reply.data.value ELSE <<>>)

getTransactionsResult(reply) ==
    IF reply.error # NULL THEN Threw(reply.error)
    ELSE Returned(IF reply.data.present THEN reply.data.value ELSE <<>>)

addTransactionResult(reply) ==
    IF reply.error # NULL THEN Threw(reply.error) ELSE Returned(reply.data)

deleteTransactionResult(reply) ==
    IF reply.error # NULL THEN Threw(reply.error) ELSE Returned(None)

Settled(fn, arg, requests, reply, result) ==
    [settled |-> TRUE, fn |-> fn, arg |-> arg, requests |-> requests,
     reply |-> reply, result |-> result]

----------------------------------------------------------------------------
(* AddScreen, continued *)

\* addTransaction's insert is answered and handleSubmit resumes after its
\* await; reachable says whether the request got through to the table.
addTransaction(reachable) ==
    /\ pending.present
    /\ LET transaction == pending.value
           reply == InsertReply(transaction, reachable)
           result == addTransactionResult(reply)
       IN  /\ store' = StoreAfterInsert(reply)
           /\ idsIssued' = IF reply.error = NULL THEN idsIssued + 1 ELSE idsIssued
           /\ outcome' = Settled("addTransaction", Some(transaction), 1, reply, result)
           /\ form' = IF result.threw
                      THEN [form EXCEPT !.alert = "Error", !.loading = FALSE]
                      ELSE [form EXCEPT !.amount = <<>>, !.category = "",
                                        !.mood = "", !.loading = FALSE]
    /\ pending' = None
    /\ now' = NowAfterInsert(InsertReply(pending.value, reachable))
    /\ UNCHANGED <<transactions, home, insights, roastingEnabled, refreshing, calls,
                   screen, loading, lastFetch, sortBy, sortOrder, sortedTransactions>>

----------------------------------------------------------------------------
(* The Add flow: the form, the call in flight and the table *)

FormInit == [type |-> "expense", amount |-> <<>>, category |-> "", mood |-> "",
             loading |-> FALSE, alert |-> NULL]

ClockStart == 8 * TicksPerDay + 1

\* texts put into the amount field: empty, zero, positive, negative, not a
\* number, a fraction, a number followed by other characters
AmountTexts == {<<>>, <<"0">>, <<"5">>, <<"-", "5">>, <<".">>, <<".", "5">>,
                <<"5", ".", ".">>}
TapCategories == {"Food", "Other", "Salary"}
TapMoods == {"smile"}

Init ==
    /\ now = ClockStart
    /\ transactions = <<>>
    /\ home = NotRendered
    /\ insights = NotRendered
    /\ form = FormInit
    /\ pending = None
    /\ store = <<>>
    /\ roastingEnabled = TRUE
    /\ refreshing = FALSE
    /\ calls = {}
    /\ outcome = NotSettled
    /\ idsIssued = 0
    /\ screen = NULL
    /\ loading = FALSE
    /\ lastFetch = None
    /\ sortBy = "date"
    /\ sortOrder = "desc"
    /\ sortedTransactions = NotRendered

Next ==
    \/ \E newType \in {"expense", "income"} : setType(newType)
    \/ \E text \in AmountTexts : setAmount(text)
    \/ \E option \in TapCategories : setCategory(option)
    \/ \E m \in TapMoods : setMood(m)
    \/ handleSubmit
    \/ dismissAlert
    \/ \E reachable \in BOOLEAN : addTransaction(reachable)

Spec == Init /\ [][Next]_vars

----------------------------------------------------------------------------
(* The aggregations on given collections.  A collection is what            *)
(* getTransactions returned: rows ordered by created_at, newest first.     *)

Tx(id, type, amount, category, mood, created_at) ==
    [id |-> id, type |-> type, amount |-> amount, category |-> category,
     source |-> IF type = "income" THEN category ELSE NULL,
     mood |-> mood, created_at |-> created_at]

Types == {"expense", "income"}

\* collections that vary in type, amount and category
AggKinds ==
    ({"expense"} \X {1, 4, 5} \X {"Food", "Other"})
        \cup {<<"expense", 1, "food">>, <<"income", 5, "Other">>, <<"income", 1, "Food">>}
AggInputs ==
    UNION {{[i \in 1..n |-> Tx(i, k[i][1], k[i][2], k[i][3], NULL, ClockStart - i)] :
              k \in [1..n -> AggKinds]} : n \in 0..MaxTx}

\* collections of at most two transactions that vary in type, amount and
\* time: from the day before the seven-day chart to the day after today
Today == 7 * TicksPerDay
Times == 0..(9 * TicksPerDay - 1)
TimedKinds == {<<"expense", 1>>, <<"expense", 2>>, <<"income", 1>>}
SortedTimes(n) == {f \in [1..n -> Times] : \A i \in 1..(n - 1) : f[i] >= f[i + 1]}
TimedInputs ==
    UNION {{[i \in 1..n |-> Tx(i, k[i][1], k[i][2], "Food", NULL, f[i])] :
              f \in SortedTimes(n), k \in [1..n -> TimedKinds]} : n \in 0..2}

\* collections with one expense on each day of a set of days (counted back
\* from today), at tick offset of the day, and with an income on the other
\* recent days when incomes is TRUE; the days are any of the most recent
\* ones, followed or not by a run of days that ends around the lookback
StreakToday == (MaxRun + 1) * TicksPerDay
RECURSIVE DayRows(_, _, _, _)
DayRows(d, days, offset, incomes) ==
    IF d > MaxRun THEN <<>>
    ELSE LET at == StreakToday - d * TicksPerDay + offset
             row == IF d \in days THEN <<Tx(d, "expense", 1, "Food", NULL, at)>>
                    ELSE IF incomes /\ d <= ShortSpan + 1
                         THEN <<Tx(d, "income", 1, "Salary", NULL, at)>>
                         ELSE <<>>
         IN  row \o DayRows(d + 1, days, offset, incomes)
RunEnds == {ShortSpan} \cup ((StreakLookback - 2)..MaxRun)
DaySets == {S \cup ((ShortSpan + 1)..n) : S \in SUBSET (0..ShortSpan), n \in RunEnds}
StreakInputs ==
    {DayRows(0, days, offset, incomes) :
        days \in DaySets, offset \in {0, TicksPerDay - 1}, incomes \in BOOLEAN}

InitAgg ==
    /\ \/ now = ClockStart /\ transactions \in AggInputs
       \/ now \in Today..(Today + TicksPerDay - 1) /\ transactions \in TimedInputs
       \/ now \in {StreakToday, StreakToday + TicksPerDay - 1} /\ transactions \in StreakInputs
    /\ home = NotRendered
    /\ insights = NotRendered
    /\ form = FormInit
    /\ pending = None
    /\ store = <<>>
    /\ roastingEnabled = TRUE
    /\ refreshing = FALSE
    /\ calls = {}
    /\ outcome = NotSettled
    /\ idsIssued = 0
    /\ screen = NULL
    /\ loading = FALSE
    /\ lastFetch = None
    /\ sortBy = "date"
    /\ sortOrder = "desc"
    /\ sortedTransactions = NotRendered

NextAgg == RenderHome \/ RenderInsights

SpecAgg == InitAgg /\ [][NextAgg]_vars

----------------------------------------------------------------------------
(* The Home and Insights screens with the Friendly Roasting switch, on     *)
(* collections that carry moods and on collections whose amounts lie       *)
(* around the thresholds of the messages.                                  *)

\* collections of at most three transactions that vary in amount and mood;
\* the table is open to every client, so an income row may carry a mood
MoodKinds ==
    ({"expense"} \X {1, 4, 5} \X {NULL, "smile", "sad"}) \cup {<<"income", 5, "smile">>}
MoodInputs ==
    UNION {{[i \in 1..n |-> Tx(i, k[i][1], k[i][2], "Food", k[i][3], ClockStart - i)] :
              k \in [1..n -> MoodKinds]} : n \in 0..3}

\* the number nearest to n dollars
Dollars(n) == FRound(n * UnitsPerDollar)

\* collections of at most two transactions: amounts below 100, between 100
\* and 500 and above 500 dollars; stamped eight days ago, exactly seven days
\* ago, at the start of today and later today
InsightToday == 9 * TicksPerDay
InsightNow == InsightToday + TicksPerDay - 1
InsightTimes ==
    {subDays(InsightToday, 8), subDays(InsightNow, 7), InsightToday, InsightNow}
InsightKinds ==
    ({"expense"} \X {Dollars(80), Dollars(110), Dollars(600)}
        \X {"Food", "Travel", "Shopping", "Bills", "Fun", "Other", "food"}
        \X InsightTimes)
    \cup ({"income"} \X {Dollars(80), Dollars(600)} \X {"Salary"} \X {InsightNow})
InsightOlderKinds ==
    ({"expense"} \X {Dollars(80), Dollars(600)} \X {"Food", "Travel"}
        \X {subDays(InsightToday, 8), InsightToday})
    \cup ({"income"} \X {Dollars(80), Dollars(600)} \X {"Salary"} \X {InsightToday})
InsightRow(i, k) == Tx(i, k[1], k[2], k[3], NULL, k[4])
InsightInputs ==
    {<<>>} \cup {<<InsightRow(1, k)>> : k \in InsightKinds}
           \cup {<<InsightRow(1, k), InsightRow(2, j)>> :
                    k \in {x \in InsightKinds : x[4] >= InsightToday},
                    j \in InsightOlderKinds}

InitInsights ==
    /\ \/ now = ClockStart /\ transactions \in MoodInputs
       \/ now = InsightNow /\ transactions \in InsightInputs
    /\ home = NotRendered
    /\ insights = NotRendered
    /\ form = FormInit
    /\ pending = None
    /\ store = <<>>
    /\ roastingEnabled = TRUE
    /\ refreshing = FALSE
    /\ calls = {}
    /\ outcome = NotSettled
    /\ idsIssued = 0
    /\ screen = NULL
    /\ loading = FALSE
    /\ lastFetch = None
    /\ sortBy = "date"
    /\ sortOrder = "desc"
    /\ sortedTransactions = NotRendered

NextInsights == RenderHome \/ RenderInsights \/ setRoastingEnabled

SpecInsights == InitInsights /\ [][NextInsights]_vars

----------------------------------------------------------------------------
(* The three screens that load the list: HomeScreen, InsightsScreen and    *)
(* TransactionsScreen (src/unnamed/part_001), with the table and a client  *)
(* that inserts rows.  loadTransactions and onRefresh are the same code on *)
(* the three screens, except that HomeScreen also has the loading flag;    *)
(* only TransactionsScreen deletes.  screen is the one that is followed.   *)
(* A request is served by the table when it is sent; its answer reaches    *)
(* the screen later, in any order with the answers of the other calls in   *)
(* flight.  Two calls in flight with the same answer and the same captured *)
(* list are one element of calls: what they do on their answer is the same *)
(* and doing it twice changes nothing.  At most two calls are in flight at *)
(* once.                                                                   *)

Call(fn, id, closure, reply) == [fn |-> fn, id |-> id, closure |-> closure, reply |-> reply]

\* loadTransactions up to its await; answer is how the table answers:
\* "rows", "error", or "nodata" (no error and no data)
loadTransactions(answer) ==
    /\ Cardinality(calls) < 2
    /\ answer = "nodata" => store = <<>>
    /\ calls' = calls \cup {Call("getTransactions", 0, <<>>, SelectReply(answer))}
    /\ lastFetch' = Some(SelectReply(answer))
    /\ outcome' = NotSettled
    /\ UNCHANGED <<now, transactions, home, insights, form, pending,
                   store, roastingEnabled, refreshing, idsIssued,
                   screen, loading, sortBy, sortOrder, sortedTransactions>>

\* the pull-to-refresh gesture
onRefresh(answer) ==
    /\ Cardinality(calls) < 2
    /\ answer = "nodata" => store = <<>>
    /\ refreshing' = TRUE
    /\ calls' = calls \cup {Call("getTransactions", 0, <<>>, SelectReply(answer))}
    /\ lastFetch' = Some(SelectReply(answer))
    /\ outcome' = NotSettled
    /\ UNCHANGED <<now, transactions, home, insights, form, pending,
                   store, roastingEnabled, idsIssued,
                   screen, loading, sortBy, sortOrder, sortedTransactions>>

\* a load whose catch empties the list
TransactionsAfterLoad_EmptyOnError(result, current) ==
    IF result.threw THEN <<>> ELSE result.value

\* try { setTransactions(data) } catch (error) { console.error(...) }
TransactionsAfterLoad(result, current) ==
    IF result.threw THEN current ELSE result.value

\* loadTransactions from its await on: try, catch and finally
loadTransactionsResume ==
    /\ \E call \in calls :
          /\ call.fn = "getTransactions"
          /\ LET result == getTransactionsResult(call.reply)
             IN  /\ transactions' = TransactionsAfterLoad(result, transactions)
                 /\ outcome' = Settled("getTransactions", None, 1, call.reply, result)
          /\ calls' = calls \ {call}
          /\ lastFetch' = IF \E other \in calls \ {call} : other.fn = "getTransactions"
                          THEN lastFetch ELSE None
    /\ loading' = IF screen = "home" THEN FALSE ELSE loading
    /\ refreshing' = FALSE
    /\ UNCHANGED <<now, home, insights, form, pending, store, roastingEnabled,
                   idsIssued, screen, sortBy, sortOrder, sortedTransactions>>

\* try { setTransactions(transactions.filter((t) => t.id !== id)) }
\* catch (error) { console.error(...) }; transactions is the captured list
TransactionsAfterDelete(result, closure, current, id) ==
    IF result.threw THEN current ELSE SelectSeq(closure, LAMBDA t : t.id # id)

\* handleDelete up to its await: the delete button of a displayed row; the
\* handler is the one of the current render and holds its transactions
handleDelete(id, reachable) ==
    /\ screen = "transactions"
    /\ Cardinality(calls) < 2
    /\ \E i \in 1..Len(transactions) : transactions[i].id = id
    /\ LET reply == DeleteReply(reachable)
       IN  /\ store' = StoreAfterDelete(id, reply)
           /\ calls' = calls \cup {Call("deleteTransaction", id, transactions, reply)}
    /\ outcome' = NotSettled
    /\ UNCHANGED <<now, transactions, home, insights, form, pending,
                   roastingEnabled, refreshing, idsIssued,
                   screen, loading, lastFetch, sortBy, sortOrder, sortedTransactions>>

\* handleDelete from its await on
handleDeleteResume ==
    /\ \E call \in calls :
          /\ call.fn = "deleteTransaction"
          /\ LET result == deleteTransactionResult(call.reply)
             IN  /\ transactions' = TransactionsAfterDelete(result, call.closure,
                                                            transactions, call.id)
                 /\ outcome' = Settled("deleteTransaction", Some(call.id), 1,
                                       call.reply, result)
          /\ calls' = calls \ {call}
    /\ UNCHANGED <<now, home, insights, form, pending, store,
                   roastingEnabled, refreshing, idsIssued,
                   screen, loading, lastFetch, sortBy, sortOrder, sortedTransactions>>

\* a call of addTransaction (src/lib/transactions.ts) with any input, from
\* its request to its return or throw
addTransactionCall(transaction, reachable) ==
    /\ InsertReply(transaction, reachable).error = NULL => idsIssued < MaxIds
    /\ LET reply == InsertReply(transaction, reachable)
       IN  /\ store' = StoreAfterInsert(reply)
           /\ idsIssued' = IF reply.error = NULL THEN idsIssued + 1 ELSE idsIssued
           /\ now' = NowAfterInsert(reply)
           /\ outcome' = Settled("addTransaction", Some(transaction), 1, reply,
                                 addTransactionResult(reply))
    /\ UNCHANGED <<transactions, home, insights, form, pending,
                   roastingEnabled, refreshing, calls,
                   screen, loading, lastFetch, sortBy, sortOrder, sortedTransactions>>

\* inputs of addTransaction: one the table accepts, and one for each way of
\* breaking a constraint (amount 0, negative, NaN; a type outside the two)
Input(type, amount) ==
    [type |-> type, amount |-> amount, category |-> "Food", source |-> NULL, mood |-> NULL]
ListInputs ==
    {Input("expense", Num(5, 0)), Input("expense", Num(0, 0)),
     Input("expense", Num(0 - 5, 0)), Input("expense", NaN), Input("gift", Num(5, 0))}

NextList ==
    \/ \E answer \in {"rows", "error", "nodata"} : loadTransactions(answer)
    \/ \E answer \in {"rows", "error", "nodata"} : onRefresh(answer)
    \/ loadTransactionsResume
    \/ \E id \in 1..MaxIds, reachable \in BOOLEAN : handleDelete(id, reachable)
    \/ handleDeleteResume
    \/ \E transaction \in ListInputs, reachable \in BOOLEAN :
          addTransactionCall(transaction, reachable)

\* a screen is mounted with an empty list; HomeScreen starts with loading
InitList ==
    /\ now = ClockStart
    /\ transactions = <<>>
    /\ home = NotRendered
    /\ insights = NotRendered
    /\ form = FormInit
    /\ pending = None
    /\ store = <<>>
    /\ roastingEnabled = TRUE
    /\ refreshing = FALSE
    /\ calls = {}
    /\ outcome = NotSettled
    /\ idsIssued = 0
    /\ screen \in {"home", "insights", "transactions"}
    /\ loading = (screen = "home")
    /\ lastFetch = None
    /\ sortBy = "date"
    /\ sortOrder = "desc"
    /\ sortedTransactions = NotRendered

SpecList == InitList /\ [][NextList]_vars

----------------------------------------------------------------------------
(* src/unnamed/part_001: the sort of the Transactions screen.  The names   *)
(* that occur are the options of the Add form, 'food', and their lower     *)
(* case forms; localeCompare orders lower case names alphabetically.       *)
(* showSortMenu is false from the start and is only ever set to false.     *)

SortKeys == {"date", "category", "source"}

toLowerCase(str) ==
    CASE str = "Food" -> "food"
      [] str = "Travel" -> "travel"
      [] str = "Shopping" -> "shopping"
      [] str = "Bills" -> "bills"
      [] str = "Fun" -> "fun"
      [] str = "Other" -> "other"
      [] str = "Salary" -> "salary"
      [] str = "Freelance" -> "freelance"
      [] str = "Investment" -> "investment"
      [] str = "Gift" -> "gift"
      [] OTHER -> str

Alphabet == <<"bills", "food", "freelance", "fun", "gift", "investment",
              "other", "salary", "shopping", "travel">>

\* a.localeCompare(b): negative, zero or positive
localeCompare(a, b) ==
    (CHOOSE i \in 1..Len(Alphabet) : Alphabet[i] = a)
        - (CHOOSE i \in 1..Len(Alphabet) : Alphabet[i] = b)

\* the value a transaction is sorted by
SortValue(t, by) ==
    CASE by = "date" -> t.created_at
      [] by = "category" -> toLowerCase(t.category)
      [] by = "source" -> toLowerCase(IF Truthy(t.source) THEN t.source ELSE t.category)

\* the comparator of sorted.sort((a, b) => ...)
Compare(a, b, by, order) ==
    LET aValue == SortValue(a, by)
        bValue == SortValue(b, by)
    IN  IF by \in {"category", "source"}
        THEN IF order = "asc" THEN localeCompare(aValue, bValue)
             ELSE localeCompare(bValue, aValue)
        ELSE IF order = "asc" THEN aValue - bValue ELSE bValue - aValue

\* Array.prototype.sort is stable: an element goes after the elements it
\* does not have to precede
RECURSIVE InsertByCompare(_, _, _, _)
InsertByCompare(sorted, x, by, order) ==
    IF sorted = <<>> THEN <<x>>
    ELSE IF Compare(Head(sorted), x, by, order) > 0
         THEN <<x>> \o sorted
         ELSE <<Head(sorted)>> \o InsertByCompare(Tail(sorted), x, by, order)

RECURSIVE SortByCompare(_, _, _, _)
SortByCompare(s, acc, by, order) ==
    IF s = <<>> THEN acc
    ELSE SortByCompare(Tail(s), InsertByCompare(acc, Head(s), by, order), by, order)

\* getSortedTransactions: the arrays it leaves (the state array and the
\* copy [...transactions] it sorts in place and returns)
getSortedTransactionsArrays(txs, by, order) ==
    [transactions |-> txs,
     sorted |-> SortByCompare(txs, <<>>, by, order)]

getSortedTransactions(txs, by, order) == getSortedTransactionsArrays(txs, by, order).sorted

\* handleSortChange without setSortOrder('desc') for a new key
handleSortChange_KeepsOrder(newSort) ==
    /\ IF sortBy = newSort
       THEN /\ sortOrder' = (IF sortOrder = "asc" THEN "desc" ELSE "asc")
            /\ UNCHANGED sortBy
       ELSE /\ sortBy' = newSort
            /\ UNCHANGED sortOrder
    /\ outcome' = NotSettled
    /\ UNCHANGED <<now, transactions, home, insights, form, pending, store,
                   roastingEnabled, refreshing, calls, idsIssued,
                   screen, loading, lastFetch, sortedTransactions>>

handleSortChange(newSort) ==
    /\ IF sortBy = newSort
       THEN /\ sortOrder' = (IF sortOrder = "asc" THEN "desc" ELSE "asc")
            /\ UNCHANGED sortBy
       ELSE /\ sortBy' = newSort
            /\ sortOrder' = "desc"
    /\ outcome' = NotSettled
    /\ UNCHANGED <<now, transactions, home, insights, form, pending, store,
                   roastingEnabled, refreshing, calls, idsIssued,
                   screen, loading, lastFetch, sortedTransactions>>

\* a render of TransactionsScreen: const sortedTransactions = getSortedTransactions()
RenderTransactions ==
    /\ LET arrays == getSortedTransactionsArrays(transactions, sortBy, sortOrder)
       IN  /\ sortedTransactions' = [rendered |-> TRUE,
                                     list |-> arrays.sorted,
                                     sortBy |-> sortBy,
                                     sortOrder |-> sortOrder]
           /\ transactions' = arrays.transactions
    /\ outcome' = NotSettled
    /\ UNCHANGED <<now, home, insights, form, pending, store,
                   roastingEnabled, refreshing, calls, idsIssued,
                   screen, loading, lastFetch, sortBy, sortOrder>>

\* loaded lists of up to MaxTx rows, newest first: expenses on 'Food',
\* 'food' and 'Travel', an income whose source is its category, and an
\* income written by another client with a source that is not its category
SortKinds ==
    {<<"expense", "Food", NULL>>, <<"expense", "food", NULL>>,
     <<"expense", "Travel", NULL>>, <<"income", "Salary", "Salary">>,
     <<"income", "Other", "Gift">>}
SortInputs ==
    UNION {{[i \in 1..n |->
               [Tx(i, k[i][1], 5, k[i][2], NULL, ClockStart - i) EXCEPT !.source = k[i][3]]] :
              k \in [1..n -> SortKinds]} : n \in 0..MaxTx}

InitSort ==
    /\ now = ClockStart
    /\ transactions \in SortInputs
    /\ home = NotRendered
    /\ insights = NotRendered
    /\ form = FormInit
    /\ pending = None
    /\ store = <<>>
    /\ roastingEnabled = TRUE
    /\ refreshing = FALSE
    /\ calls = {}
    /\ outcome = NotSettled
    /\ idsIssued = 0
    /\ screen = "transactions"
    /\ loading = FALSE
    /\ lastFetch = None
    /\ sortBy = "date"
    /\ sortOrder = "desc"
    /\ sortedTransactions = NotRendered

NextSort ==
    \/ \E newSort \in SortKeys : handleSortChange(newSort)
    \/ RenderTransactions

SpecSort == InitSort /\ [][NextSort]_vars

----------------------------------------------------------------------------
(* Reference definitions used to state the properties *)

Indices(txs) == 1..Len(txs)
Min(S) == CHOOSE x \in S : \A y \in S : x <= y
ExpenseIdx(txs) == {i \in Indices(txs) : txs[i].type = "expense"}
IncomeIdx(txs) == {i \in Indices(txs) : txs[i].type = "income"}

\* the amounts at the indices I among the first n, added in list order
RECURSIVE SumOver(_, _, _)
SumOver(txs, I, n) ==
    IF n = 0 THEN 0
    ELSE IF n \in I THEN FAdd(SumOver(txs, I, n - 1), txs[n].amount)
         ELSE SumOver(txs, I, n - 1)

\* the same amounts added without rounding
RECURSIVE ExactSumOver(_, _, _)
ExactSumOver(txs, I, n) ==
    IF n = 0 THEN 0
    ELSE ExactSumOver(txs, I, n - 1) + (IF n \in I THEN txs[n].amount ELSE 0)

\* the amounts of a list of entries, added in list order
RECURSIVE SumOfEntries(_, _)
SumOfEntries(entries, n) ==
    IF n = 0 THEN 0 ELSE FAdd(SumOfEntries(entries, n - 1), entries[n].amount)

\* the start of the calendar day d days before the day of instant t
DayStartBack(t, d) == ((t \div TicksPerDay) - d) * TicksPerDay
\* the transactions stamped in the window [start, start + one day)
InWindow(txs, I, start) ==
    {i \in I : start <= txs[i].created_at /\ txs[i].created_at < start + TicksPerDay}

----------------------------------------------------------------------------
(* C1: whenever the Home screen has rendered, the totalIncome it got from  *)
(* calculateBalance is the sum of the amounts of the income transactions   *)
(* and of no other, totalExpense is the sum of the amounts of the expense  *)
(* transactions and of no other, both are >= 0, and balance is             *)
(* totalIncome - totalExpense.                                             *)
C1_BalancePartition ==
    home.rendered =>
        /\ home.totalIncome =
              SumOver(transactions, IncomeIdx(transactions), Len(transactions))
        /\ home.totalExpense =
              SumOver(transactions, ExpenseIdx(transactions), Len(transactions))
        /\ home.totalIncome >= 0
        /\ home.totalExpense >= 0
        /\ home.balance = FSub(home.totalIncome, home.totalExpense)

C1_Witness ==
    /\ home.rendered
    /\ Cardinality(IncomeIdx(transactions)) >= 1
    /\ Cardinality(ExpenseIdx(transactions)) >= 2
    /\ home.balance < 0

----------------------------------------------------------------------------
(* C2, as claimed: whenever the Home screen has rendered, the amounts of   *)
(* the entries of getCategorySpending add up exactly to the totalExpense   *)
(* of calculateBalance.                                                    *)
C2_SumsExactly ==
    home.rendered => SumOfEntries(home.categoryData, Len(home.categoryData)) = home.totalExpense

(* C2, amended: the amounts of the entries of getCategorySpending add up   *)
(* exactly to totalExpense whenever no addition of expense amounts rounds, *)
(* that is, whenever the exact total of the expense amounts is exactly     *)
(* representable together with every partial sum.                          *)
C2_SumsExactlyWhenNoRounding ==
    (/\ home.rendered
     /\ ExactSumOver(transactions, ExpenseIdx(transactions), Len(transactions)) <= MaxExact)
        => SumOfEntries(home.categoryData, Len(home.categoryData)) = home.totalExpense

C2_Witness ==
    /\ home.rendered
    /\ Len(home.categoryData) >= 2
    /\ Cardinality(ExpenseIdx(transactions)) >= 3
    /\ ExactSumOver(transactions, ExpenseIdx(transactions), Len(transactions)) <= MaxExact
    /\ home.totalExpense >= 6

----------------------------------------------------------------------------
(* C3, as claimed: whenever the Home screen has rendered, entry i of the   *)
(* 7-day series is the sum of the expense amounts stamped in the window    *)
(* [start, start + 24h) of its day, the lower bound included: an expense   *)
(* stamped exactly at the start of a day counts for that day.              *)
C3_HalfOpenWindow ==
    home.rendered =>
        \A i \in 1..ChartDays :
            home.dailySpending[i] =
                SumOver(transactions,
                        InWindow(transactions, ExpenseIdx(transactions),
                                 DayStartBack(home.at, ChartDays - i)),
                        Len(transactions))

----------------------------------------------------------------------------
(* C4: whenever the Insights screen has rendered, the daily average is 0   *)
(* if the collection has no expense transaction, and otherwise the total   *)
(* of the expense amounts divided by max(1, whole days elapsed between the *)
(* render and the oldest expense transaction of the collection).           *)
OldestExpenseTime(txs) ==
    LET E == ExpenseIdx(txs)
    IN  txs[CHOOSE i \in E : \A j \in E : txs[i].created_at <= txs[j].created_at].created_at

WholeDaysElapsed(from, to) ==
    IF to >= from + TicksPerDay
    THEN CHOOSE d \in 1..(to - from) :
            d * TicksPerDay <= to - from /\ to - from < (d + 1) * TicksPerDay
    ELSE 0

C4_DailyAverage ==
    insights.rendered =>
        IF ExpenseIdx(transactions) = {}
        THEN insights.dailyAverage[1] = 0
        ELSE insights.dailyAverage =
                <<SumOver(transactions, ExpenseIdx(transactions), Len(transactions)),
                  Max(1, WholeDaysElapsed(OldestExpenseTime(transactions), insights.at))>>

C4_Witness ==
    /\ insights.rendered
    /\ Cardinality(ExpenseIdx(transactions)) >= 2
    /\ IncomeIdx(transactions) # {}
    /\ transactions[Len(transactions)].type = "income"
    /\ transactions[1].type = "expense"
    /\ transactions[1].created_at >= OldestExpenseTime(transactions) + TicksPerDay
    /\ insights.dailyAverage[2] >= 2

----------------------------------------------------------------------------
(* C5, as claimed: a submit of the Add form whose amount is not a strictly *)
(* positive number (empty, zero, negative or not numeric), or with no      *)
(* category selected, never calls addTransaction: no step taken from such  *)
(* a form puts an insert request in flight.                                *)
AllDigits(s) == \A i \in 1..Len(s) : s[i] \in Digits

\* the text is, as a whole, a decimal numeral
IsNumeral(text) ==
    LET body == IF text # <<>> /\ text[1] = "-" THEN Tail(text) ELSE text
    IN  \E k \in 0..Len(body) :
           LET int == SubSeq(body, 1, k)
               rest == SubSeq(body, k + 1, Len(body))
           IN  /\ AllDigits(int)
               /\ \/ rest = <<>> /\ int # <<>>
                  \/ /\ rest # <<>> /\ rest[1] = "." /\ AllDigits(Tail(rest))
                     /\ (int # <<>> \/ Tail(rest) # <<>>)

IsPositiveNumber(text) ==
    /\ IsNumeral(text)
    /\ text[1] # "-"
    /\ \E i \in 1..Len(text) : text[i] = "5"

C5_ValidationBeforeStore ==
    [][(~IsPositiveNumber(form.amount) \/ form.category = "")
          => ~(~pending.present /\ pending'.present)]_vars

----------------------------------------------------------------------------
(* C6: whenever the Insights screen has rendered, the streak is the number *)
(* of consecutive calendar days, counted backward from the day of the      *)
(* render, that each hold at least one expense transaction: counting stops *)
(* at the first day without one (0 when today has none) and after 30 days. *)
HasExpenseOn(txs, t, d) ==
    InWindow(txs, ExpenseIdx(txs), DayStartBack(t, d)) # {}

C6_Streak ==
    insights.rendered =>
        /\ insights.streak \in 0..StreakLookback
        /\ \A d \in 0..(insights.streak - 1) : HasExpenseOn(transactions, insights.at, d)
        /\ \/ insights.streak = StreakLookback
           \/ ~HasExpenseOn(transactions, insights.at, insights.streak)

C6_Witness ==
    /\ insights.rendered
    /\ insights.streak = 2
    /\ ~HasExpenseOn(transactions, insights.at, 2)
    /\ HasExpenseOn(transactions, insights.at, 3)

----------------------------------------------------------------------------
(* C7: whenever the Insights screen has rendered, 0 <= streak <= 30, also  *)
(* when expenses exist on more than 30 consecutive days.                   *)
C7_StreakBounded ==
    insights.rendered => (0 <= insights.streak /\ insights.streak <= 30)

C7_Witness ==
    /\ insights.rendered
    /\ insights.streak = 30
    /\ \A d \in 0..31 : HasExpenseOn(transactions, insights.at, d)

----------------------------------------------------------------------------
(* C8: whenever the Home screen has rendered, the category breakdown has   *)
(* exactly one entry per distinct category (compared exactly, case         *)
(* included) of the expense transactions, none for a category found only   *)
(* on income transactions, each entry's amount is the sum of the amounts   *)
(* of the expenses of its category, and the amounts never increase along   *)
(* the list.                                                               *)
ExpenseCategories(txs) == {txs[i].category : i \in ExpenseIdx(txs)}

C8_CategoryBreakdown ==
    home.rendered =>
        LET data == home.categoryData
        IN  /\ {data[i].category : i \in 1..Len(data)} = ExpenseCategories(transactions)
            /\ Len(data) = Cardinality(ExpenseCategories(transactions))
            /\ \A i \in 1..Len(data) :
                  data[i].amount =
                     SumOver(transactions,
                             {k \in ExpenseIdx(transactions) :
                                 transactions[k].category = data[i].category},
                             Len(transactions))
            /\ \A i \in 1..Len(data) : \A j \in i..Len(data) :
                  data[i].amount >= data[j].amount

C8_Witness ==
    /\ home.rendered
    /\ Len(home.categoryData) = 2
    /\ {"Food", "food"} = ExpenseCategories(transactions)
    /\ \E i \in IncomeIdx(transactions) : transactions[i].category = "Other"
    /\ home.categoryData[1].amount > home.categoryData[2].amount
    /\ home.categoryData[1].category # transactions[Min(ExpenseIdx(transactions))].category

----------------------------------------------------------------------------
(* C9: for the empty collection every aggregation returns: balance,        *)
(* totalIncome, totalExpense, daily average, weekly spending and streak    *)
(* are 0, the category breakdown is the empty list, and the top category   *)
(* and the mood correlation are absent.                                    *)
C9_EmptyCollection ==
    transactions = <<>> =>
        /\ home.rendered =>
              /\ home.balance = 0 /\ home.totalIncome = 0 /\ home.totalExpense = 0
              /\ home.categoryData = <<>>
        /\ insights.rendered =>
              /\ insights.dailyAverage[1] = 0
              /\ insights.weeklySpending = 0
              /\ insights.streak = 0
              /\ insights.topCategory = None
              /\ insights.moodCorrelation = None

C9_Witness ==
    transactions = <<>> /\ home.rendered /\ insights.rendered

----------------------------------------------------------------------------
(* C10: whenever the Home screen has rendered, the daily-spending series   *)
(* has exactly 7 entries, every entry is >= 0, and entry i stands for the  *)
(* calendar day 7 - i days before the day of the render (oldest first):    *)
(* an expense stamped inside that day, after its start, makes the entry    *)
(* positive, and a positive entry has an expense stamped on that day.      *)
C10_SevenDaysOldestFirst ==
    home.rendered =>
        /\ Len(home.dailySpending) = 7
        /\ \A i \in 1..7 :
              LET start == DayStartBack(home.at, 7 - i)
                  E == ExpenseIdx(transactions)
              IN  /\ home.dailySpending[i] >= 0
                  /\ (\E k \in InWindow(transactions, E, start) :
                         transactions[k].created_at # start)
                        => home.dailySpending[i] > 0
                  /\ home.dailySpending[i] > 0
                        => InWindow(transactions, E, start) # {}

C10_Witness ==
    /\ home.rendered
    /\ home.dailySpending[1] > 0
    /\ home.dailySpending[6] > home.dailySpending[1]
    /\ home.dailySpending[7] = 0

----------------------------------------------------------------------------
(* C11: whenever the Insights screen has rendered, the mood correlation is *)
(* absent if no expense transaction carries a non-empty mood; otherwise it *)
(* has exactly one entry per distinct mood of the expense transactions     *)
(* that carry one (incomes and moodless expenses count for nothing), each  *)
(* entry's count is the number of those expenses, its average is their     *)
(* total divided by the count, and the averages never increase along the   *)
(* list.                                                                   *)
MoodIdx(txs) == {i \in ExpenseIdx(txs) : txs[i].mood # NULL /\ txs[i].mood # ""}
WithMood(txs, mood) == {i \in MoodIdx(txs) : txs[i].mood = mood}
FracGeq(a, b) == a[1] * b[2] >= b[1] * a[2]

C11_MoodCorrelation ==
    insights.rendered =>
        IF MoodIdx(transactions) = {}
        THEN insights.moodCorrelation = None
        ELSE /\ insights.moodCorrelation.present
             /\ LET list == insights.moodCorrelation.value
                    moods == {transactions[i].mood : i \in MoodIdx(transactions)}
                IN  /\ {list[i].mood : i \in 1..Len(list)} = moods
                    /\ Len(list) = Cardinality(moods)
                    /\ \A i \in 1..Len(list) :
                          LET I == WithMood(transactions, list[i].mood)
                          IN  /\ list[i].count = Cardinality(I)
                              /\ list[i].average =
                                    <<SumOver(transactions, I, Len(transactions)),
                                      Cardinality(I)>>
                    /\ \A i \in 1..Len(list) : \A j \in i..Len(list) :
                          FracGeq(list[i].average, list[j].average)

C11_Witness ==
    /\ insights.rendered
    /\ insights.moodCorrelation.present
    /\ Len(insights.moodCorrelation.value) = 2
    /\ insights.moodCorrelation.value[1].count = 2
    /\ insights.moodCorrelation.value[1].mood # transactions[1].mood
    /\ transactions[1].type = "expense" /\ transactions[1].mood # NULL

----------------------------------------------------------------------------
(* C12: whenever the Insights screen has rendered, the top category is     *)
(* absent exactly when the collection has no expense transaction;          *)
(* otherwise it is a category whose summed expense amount is the largest   *)
(* of all expense categories, reported with that sum, and among the        *)
(* categories that share the largest sum it is the one whose first expense *)
(* comes first in the collection.                                          *)
CategoryIdx(txs, category) == {i \in ExpenseIdx(txs) : txs[i].category = category}
CategorySum(txs, category) == SumOver(txs, CategoryIdx(txs, category), Len(txs))

C12_TopCategory ==
    insights.rendered =>
        /\ insights.topCategory.present <=> ExpenseIdx(transactions) # {}
        /\ insights.topCategory.present =>
              LET name == insights.topCategory.value[1]
                  total == insights.topCategory.value[2]
                  cats == ExpenseCategories(transactions)
              IN  /\ name \in cats
                  /\ total = CategorySum(transactions, name)
                  /\ \A c \in cats : CategorySum(transactions, c) <= total
                  /\ \A c \in cats :
                        CategorySum(transactions, c) = total
                           => Min(CategoryIdx(transactions, name))
                                 <= Min(CategoryIdx(transactions, c))

C12_Witness ==
    /\ insights.rendered
    /\ insights.topCategory.present
    /\ Cardinality(ExpenseCategories(transactions)) = 2
    /\ \A c \in ExpenseCategories(transactions) :
          CategorySum(transactions, c) = insights.topCategory.value[2]
    /\ Cardinality(ExpenseIdx(transactions)) = 3
    /\ Cardinality(CategoryIdx(transactions, insights.topCategory.value[1])) = 1

----------------------------------------------------------------------------
(* C13: whenever the Home screen has rendered, with T the sum of the       *)
(* amounts of the expenses stamped strictly after the start of the day of  *)
(* the render: T = 0 gives the congratulatory message; T > 100 dollars     *)
(* gives the warning message with the whole number of dollars nearest to   *)
(* T; otherwise the message names the first category of the category       *)
(* breakdown, or "nothing" when the breakdown is empty.                    *)
TodayIdx(txs, t) == {i \in ExpenseIdx(txs) : txs[i].created_at > DayStartBack(t, 0)}

C13_DailyInsight ==
    home.rendered =>
        LET T == SumOver(transactions, TodayIdx(transactions, home.at), Len(transactions))
            shown == home.aiInsight
        IN  IF T = 0 THEN shown = [message |-> "Great job!"]
            ELSE IF T > 100 * UnitsPerDollar
            THEN /\ shown.message = "Whoa there!"
                 /\ 2 * shown.spent * UnitsPerDollar - 2 * T <= UnitsPerDollar
                 /\ 2 * T - 2 * shown.spent * UnitsPerDollar <= UnitsPerDollar
            ELSE /\ shown.message = "You're spending most on"
                 /\ shown.topCategory =
                       IF home.categoryData = <<>> THEN "nothing"
                       ELSE home.categoryData[1].category

C13_Witness ==
    /\ home.rendered
    /\ home.aiInsight.message = "Whoa there!"
    /\ home.aiInsight.spent * UnitsPerDollar # home.totalExpense
    /\ Cardinality(TodayIdx(transactions, home.at)) = 1
    /\ \E i \in ExpenseIdx(transactions) :
          transactions[i].created_at = DayStartBack(home.at, 0)

----------------------------------------------------------------------------
(* C14: whenever the Insights screen has rendered and the balance of the   *)
(* collection is >= 0 (0 and the empty collection included), the why-broke *)
(* explanation is exactly the fixed positive message, whatever the         *)
(* roasting switch, the weekly spend and the category totals are.          *)
Balance(txs) ==
    FSub(SumOver(txs, IncomeIdx(txs), Len(txs)), SumOver(txs, ExpenseIdx(txs), Len(txs)))

C14_FineWhenNotNegative ==
    (insights.rendered /\ Balance(transactions) >= 0)
        => insights.whyBroke = [message |-> "Actually, you're doing fine! Keep it up!"]

C14_Witness ==
    /\ insights.rendered
    /\ Balance(transactions) = 0
    /\ ~insights.roasting
    /\ insights.topCategory.present /\ insights.topCategory.value[1] = "Food"
    /\ insights.weeklySpending > 500 * UnitsPerDollar
    /\ insights.whyBroke = [message |-> "Actually, you're doing fine! Keep it up!"]

----------------------------------------------------------------------------
(* C15: whenever the Insights screen has rendered and the balance is < 0,  *)
(* the why-broke explanation names the category with the largest summed    *)
(* expense amount and that sum, includes the weekly spend (the sum of the  *)
(* expenses stamped strictly after the render minus 7 days), includes a    *)
(* category phrase if and only if roasting was enabled and the top         *)
(* category is exactly Food, Shopping or Fun, and includes the slow-down   *)
(* warning if and only if roasting was enabled and the weekly spend is     *)
(* above 500 dollars.                                                      *)
WeekIdx(txs, t) == {i \in ExpenseIdx(txs) : txs[i].created_at > t - 7 * TicksPerDay}

C15_WhyBroke ==
    (insights.rendered /\ Balance(transactions) < 0) =>
        LET w == insights.whyBroke
            weekly == SumOver(transactions, WeekIdx(transactions, insights.at),
                              Len(transactions))
        IN  /\ w.message = "Alright, let's break this down..."
            /\ w.topCategory.present
            /\ w.topCategory.value.name \in ExpenseCategories(transactions)
            /\ w.topCategory.value.total =
                  CategorySum(transactions, w.topCategory.value.name)
            /\ \A c \in ExpenseCategories(transactions) :
                  CategorySum(transactions, c) <= w.topCategory.value.total
            /\ w.weeklySpending = weekly
            /\ w.topCategory.value.roast # ""
                  <=> (/\ insights.roasting
                       /\ w.topCategory.value.name \in {"Food", "Shopping", "Fun"})
            /\ w.slowDown # ""
                  <=> (insights.roasting /\ weekly > 500 * UnitsPerDollar)

C15_Witness ==
    /\ insights.rendered
    /\ Balance(transactions) < 0
    /\ insights.roasting
    /\ insights.whyBroke.topCategory.value.name = "Shopping"
    /\ insights.whyBroke.topCategory.value.roast # ""
    /\ insights.whyBroke.slowDown # ""
    /\ insights.whyBroke.weeklySpending < insights.whyBroke.topCategory.value.total
                                             + Dollars(80)
    /\ Cardinality(ExpenseIdx(transactions)) = 2
    /\ Cardinality(WeekIdx(transactions, insights.at)) = 1

----------------------------------------------------------------------------
(* C16: whenever the Insights screen has rendered and shows the            *)
(* top-category card: with roasting disabled the card has no phrase; with  *)
(* roasting enabled it has a phrase if and only if the top category is     *)
(* exactly one of Food, Travel, Shopping, Bills, Fun, Other; and the       *)
(* phrases of two different ones of these six are different.               *)
Canonical == {"Food", "Travel", "Shopping", "Bills", "Fun", "Other"}
CardPhrase(category) == TopCategoryCard(Some(<<category, 1>>), TRUE).value.roast.value

C16_CardRoast ==
    /\ \A c \in Canonical, d \in Canonical : c # d => CardPhrase(c) # CardPhrase(d)
    /\ (insights.rendered /\ insights.topCategoryCard.present) =>
          LET card == insights.topCategoryCard.value
          IN  /\ ~insights.roasting => ~card.roast.present
              /\ insights.roasting =>
                    /\ card.roast.present
                    /\ card.roast.value = CardPhrase(card.categoryName)
                    /\ card.roast.value # "" <=> card.categoryName \in Canonical

C16_Witness ==
    /\ insights.rendered
    /\ insights.topCategoryCard.present
    /\ insights.roasting
    /\ insights.topCategoryCard.value.categoryName = "food"
    /\ insights.topCategoryCard.value.roast = Some("")
    /\ CardPhrase("Food") # ""

----------------------------------------------------------------------------
(* C17: in every state the table reaches through inserts and deletes no    *)
(* two rows have the same id, every row has amount > 0 and type expense or *)
(* income; a call of addTransaction whose input breaks a constraint throws *)
(* and leaves the table as it was; and a row that stays in the table keeps *)
(* every field.                                                            *)
RowIds(rows) == {rows[i].id : i \in 1..Len(rows)}
ValidInput(transaction) ==
    /\ ~transaction.amount.nan /\ transaction.amount.m > 0
    /\ transaction.type \in {"expense", "income"}

StoreConstraints ==
    /\ Cardinality(RowIds(store)) = Len(store)
    /\ \A i \in 1..Len(store) :
          /\ ~store[i].amount.nan /\ store[i].amount.m > 0
          /\ store[i].type \in {"expense", "income"}

\* the step ends a call of a function of transactions.ts
CallEnds == outcome'.settled

RejectedCreateAddsNothing ==
    (/\ CallEnds
     /\ outcome'.fn = "addTransaction"
     /\ ~ValidInput(outcome'.arg.value))
        => (store' = store /\ outcome'.result.threw)

RowsNeverChange ==
    \A i \in 1..Len(store) : \A j \in 1..Len(store') :
        store'[j].id = store[i].id => store'[j] = store[i]

C17_StoreInvariant ==
    []StoreConstraints /\ [][RejectedCreateAddsNothing /\ RowsNeverChange]_vars

C17_Witness ==
    /\ Len(store) = 1
    /\ store[1].id = 2
    /\ outcome.settled
    /\ outcome.fn = "addTransaction"
    /\ outcome.reply.error = "ConstraintViolation"
    /\ outcome.arg.value.amount = Num(0, 0)

----------------------------------------------------------------------------
(* C18: every call of getTransactions, addTransaction and                  *)
(* deleteTransaction that has ended issued exactly one request; when the   *)
(* answer carried an error the call threw that error, otherwise it         *)
(* returned, getTransactions with the rows of the answer or the empty list *)
(* when the answer had no data; and the end of a call puts no further      *)
(* request in flight.                                                      *)
CallEndedAsAnswered ==
    outcome.settled =>
        /\ outcome.requests = 1
        /\ outcome.reply.error # NULL => outcome.result = Threw(outcome.reply.error)
        /\ outcome.reply.error = NULL =>
              /\ ~outcome.result.threw
              /\ outcome.fn = "getTransactions" =>
                    outcome.result.value =
                       IF outcome.reply.data.present THEN outcome.reply.data.value
                       ELSE <<>>

C18_ErrorsSurface ==
    []CallEndedAsAnswered /\ [][CallEnds => calls' \subseteq calls]_vars

C18_Witness ==
    /\ outcome.settled
    /\ outcome.fn = "getTransactions"
    /\ outcome.result = Threw("FetchError")
    /\ Len(transactions) = 2
    /\ Len(store) = 1
    /\ calls = {}

----------------------------------------------------------------------------
(* C19: a render of the Home or the Insights screen leaves the transaction *)
(* collection as it was (same elements, same order), and a second render   *)
(* at the same instant, with the roasting switch as it was, computes the   *)
(* same results.                                                           *)
AggregationsArePure ==
    /\ transactions' = transactions
    /\ (home.rendered /\ home'.rendered /\ home'.at = home.at) => home' = home
    /\ (/\ insights.rendered /\ insights'.rendered
        /\ insights'.at = insights.at /\ insights'.roasting = insights.roasting)
          => insights' = insights

C19_Idempotent == [][AggregationsArePure]_vars

C19_Witness ==
    /\ home.rendered
    /\ insights.rendered
    /\ Len(home.categoryData) = 2
    /\ Len(transactions) = 2
    /\ transactions[1].amount < transactions[2].amount
    /\ transactions[1].type = "expense" /\ transactions[2].type = "expense"

----------------------------------------------------------------------------
(* C20, as claimed: on the Transactions screen, once no call is in flight  *)
(* any more, the displayed list holds no transaction that was deleted:     *)
(* every displayed transaction is a row of the table.                      *)
C20_DeletedNeverReappears ==
    calls = {} =>
        \A i \in 1..Len(transactions) : transactions[i].id \in RowIds(store)

----------------------------------------------------------------------------
(* C23: every transaction the Add form sends to the store is well shaped:  *)
(* an expense has one of the six expense categories and no source; an      *)
(* income has one of the five income sources as category, the same value   *)
(* as source, and no mood.                                                 *)
Options(list) == {list[i] : i \in 1..Len(list)}
C23_SentShape ==
    pending.present =>
        LET t == pending.value
        IN  IF t.type = "expense"
            THEN t.category \in Options(EXPENSE_CATEGORIES) /\ t.source = NULL
            ELSE /\ t.type = "income"
                 /\ t.category \in Options(INCOME_SOURCES)
                 /\ t.source = t.category
                 /\ t.mood = NULL

\* an income is on its way to the store, with the source the user picked
\* after switching the type
C23_Witness ==
    /\ pending.present
    /\ pending.value.type = "income"
    /\ pending.value.category = "Salary"
    /\ pending.value.source = "Salary"

----------------------------------------------------------------------------
(* C24: when every amount of the collection is > 0 and the balance is < 0  *)
(* at a render of the Insights screen, the collection has an expense, the  *)
(* top category exists, and the why-broke explanation is the one of a      *)
(* negative balance and names that category: the explanation without a    *)
(* top category does not occur.                                            *)
AmountsPositive(txs) == \A i \in Indices(txs) : txs[i].amount > 0

C24_TopCategoryExists ==
    (insights.rendered /\ AmountsPositive(transactions) /\ Balance(transactions) < 0) =>
        /\ ExpenseIdx(transactions) # {}
        /\ insights.topCategory.present
        /\ insights.whyBroke.message = "Alright, let's break this down..."
        /\ insights.whyBroke.topCategory.present
        /\ insights.whyBroke.topCategory.value.name = insights.topCategory.value[1]

\* an income and a larger expense: the balance is negative and the
\* explanation names the expense's category
C24_Witness ==
    /\ insights.rendered
    /\ AmountsPositive(transactions)
    /\ IncomeIdx(transactions) # {}
    /\ Balance(transactions) < 0
    /\ insights.whyBroke.topCategory.present
    /\ insights.whyBroke.topCategory.value.name = "Travel"

----------------------------------------------------------------------------
(* C25, as claimed: whenever both screens have rendered a collection with  *)
(* no transaction stamped after the render, the spending streak is >= 1    *)
(* exactly when the daily insight found a total spent today above 0 (its   *)
(* message is not the one of a day without spending), and that total is    *)
(* the last entry of the 7-day series: the insight reports no spending     *)
(* exactly when that entry is 0, and the amount it shows is that entry.    *)
NoneInFuture(txs, t) == \A i \in Indices(txs) : txs[i].created_at <= t

C25_SpentTodayAgrees ==
    (home.rendered /\ insights.rendered /\ NoneInFuture(transactions, now)) =>
        /\ insights.streak >= 1 <=> home.aiInsight.message # "Great job!"
        /\ home.aiInsight.message = "Great job!" <=> home.dailySpending[ChartDays] = 0
        /\ home.aiInsight.message = "Whoa there!" =>
              home.aiInsight.spent = toFixed(home.dailySpending[ChartDays], 0)

----------------------------------------------------------------------------
(* C21, as claimed: when a load of the screen returns its rows and leaves  *)
(* no other load in flight, and the most recently issued load was answered *)
(* without error, the list the screen then displays is the rows answered   *)
(* to that most recently issued load.                                      *)
LoadsInFlight(cs) == {call \in cs : call.fn = "getTransactions"}

LastLoadShowsLatestFetch ==
    (/\ outcome'.settled
     /\ outcome'.fn = "getTransactions"
     /\ ~outcome'.result.threw
     /\ LoadsInFlight(calls') = {}
     /\ lastFetch.present
     /\ lastFetch.value.error = NULL)
        => transactions' = getTransactionsResult(lastFetch.value).value

C21_LatestFetchWins == [][LastLoadShowsLatestFetch]_vars

----------------------------------------------------------------------------
(* C22: in every step in which getTransactions ends by throwing, the       *)
(* screen's list stays as it was, refreshing becomes false and, on the     *)
(* Home screen, loading becomes false; in every step in which              *)
(* deleteTransaction ends by throwing, the list stays as it was.           *)
FailedLoadKeepsList ==
    (outcome'.settled /\ outcome'.fn = "getTransactions" /\ outcome'.result.threw) =>
        /\ transactions' = transactions
        /\ refreshing' = FALSE
        /\ screen = "home" => loading' = FALSE

FailedDeleteKeepsList ==
    (outcome'.settled /\ outcome'.fn = "deleteTransaction" /\ outcome'.result.threw) =>
        transactions' = transactions

C22_FailureKeepsList == [][FailedLoadKeepsList /\ FailedDeleteKeepsList]_vars

\* a load of the Home screen has just failed while a row is displayed and
\* another call is still in flight
C22_Witness ==
    /\ outcome.settled
    /\ outcome.fn = "getTransactions"
    /\ outcome.result.threw
    /\ screen = "home"
    /\ transactions # <<>>
    /\ ~loading /\ ~refreshing
    /\ calls # {}

----------------------------------------------------------------------------
(* C26: the Transactions screen starts with sort key date and order desc;  *)
(* every sort selection either keeps the key and flips the order (when the *)
(* active key is chosen) or makes the chosen key active with order desc;   *)
(* the sorted view of every render holds the rows of the loaded list, each *)
(* as many times as the list does; and neither a render nor a selection    *)
(* changes the loaded list.                                                *)
Flip(order) == IF order = "asc" THEN "desc" ELSE "asc"
Occurrences(s, x) == Cardinality({i \in 1..Len(s) : s[i] = x})
IsPermutation(s, t) ==
    /\ Len(s) = Len(t)
    /\ \A i \in 1..Len(s) : Occurrences(s, s[i]) = Occurrences(t, s[i])

SortedViewIsPermutation ==
    sortedTransactions.rendered => IsPermutation(sortedTransactions.list, transactions)

SortSelection ==
    /\ \A newSort \in SortKeys :
          handleSortChange(newSort) =>
              IF newSort = sortBy
              THEN sortBy' = sortBy /\ sortOrder' = Flip(sortOrder)
              ELSE sortBy' = newSort /\ sortOrder' = "desc"
    /\ (sortBy' # sortBy \/ sortOrder' # sortOrder) =>
          \/ sortBy' = sortBy /\ sortOrder' = Flip(sortOrder)
          \/ sortBy' # sortBy /\ sortOrder' = "desc"

ListNotReordered == transactions' = transactions

C26_SortSelections ==
    /\ sortBy = "date" /\ sortOrder = "desc"
    /\ []SortedViewIsPermutation
    /\ [][SortSelection /\ ListNotReordered]_vars

\* after choosing source twice, three rows are shown by source ascending,
\* in another order than the loaded list has
C26_Witness ==
    /\ sortedTransactions.rendered
    /\ sortBy = "source" /\ sortOrder = "asc"
    /\ sortedTransactions.sortBy = "source" /\ sortedTransactions.sortOrder = "asc"
    /\ Len(transactions) = 3
    /\ sortedTransactions.list # transactions
    /\ \E i \in 1..3 : transactions[i].source # NULL
                          /\ transactions[i].source # transactions[i].category

====
